---------------------------- MODULE Spec2Model ----------------------------
(***************************************************************************)
(* Model of the report tooling of paymium-e2e-allure-reports:              *)
(*   - update-stats-history.js     (the stats aggregator, main)            *)
(*   - fix-stats-from-allure-data.js (the reconciler, main)                *)
(*   - generate-manifest.sh        (manifest regeneration)                 *)
(*                                                                         *)
(* A JavaScript string is a sequence of one-character strings, so that     *)
(* toLowerCase, includes, match, parseInt and sort() act on characters.    *)
(* A JSON scalar is a record [t, n, s]: t = "missing" (absent/undefined),  *)
(* t = "num" (the number n), t = "str" (the string s).                     *)
(***************************************************************************)
EXTENDS Integers, Sequences, FiniteSets, TLC

VARIABLES
    manifestFile,   \* reports/manifest.json on disk
    statsFile,      \* stats-history.json on disk
    pc,             \* position of the aggregator's main()
    manifest,       \* local: the parsed manifest (line 57)
    history,        \* local: the parsed history (lines 61-70)
    existingMap,    \* local: entries by date (lines 73-76, 125-127)
    newDataByDate,  \* local: aggregate of the manifest by date (lines 79-121)
    exitCode,       \* exit status of the last finished aggregator process
    clock,          \* wall clock read by new Date() (line 136)
    runNo,          \* number of the aggregator run in progress
    statsAtStart,   \* stats-history.json as it was when the run started
    manifestRead,   \* the run has read manifest.json (line 57)
    historyRead,    \* the run has looked at / read stats-history.json (62-70)
    writes,         \* writes of stats-history.json done by the run (line 140)
    outputs,        \* the entries written by each successful run, in order
    fixPc,          \* position of the reconciler's main()
    fixExit,        \* exit status of the reconciler, once it has ended
    dryRun,         \* DRY_RUN (fix-stats-from-allure-data.js line 24)
    reportsDir,     \* REPORTS_DIR exists
    disk,           \* the report folders in REPORTS_DIR
    folders,        \* local: the folder names, sorted (lines 79-81)
    folderIdx,      \* the for-loop's position in folders (line 90)
    fixedCount,     \* fixedCount (line 85)
    renames,        \* the deferred renames (line 88)
    renameIdx,      \* the rename loop's position (line 159)
    genPc,          \* position of generate-manifest.sh
    manifestTmp,    \* manifest.json.tmp
    nodeOnPath      \* `command -v node` succeeds (generate-manifest.sh line 100)

aggVars == <<manifestFile, statsFile, pc, manifest, history, existingMap,
             newDataByDate, exitCode, clock, runNo, statsAtStart,
             manifestRead, historyRead, writes, outputs>>
fixVars == <<fixPc, fixExit, dryRun, reportsDir, disk, folders, folderIdx,
             fixedCount, renames, renameIdx, genPc, manifestTmp, nodeOnPath>>
vars == <<aggVars, fixVars>>

---------------------------------------------------------------------------
(* Bounds of the model *)

\* longest manifest drawn as input
MaxRecords == 2
\* longest prior history drawn as input
MaxEntries == 2
\* aggregator runs in a row over the same manifest
MaxRuns == 2

---------------------------------------------------------------------------
(* Characters and strings *)

Digits == <<"0", "1", "2", "3", "4", "5", "6", "7", "8", "9">>
UpperCase == <<"A", "B", "C", "D", "E", "F", "G", "H", "I", "J", "K", "L", "M", "N", "O", "P", "Q", "R", "S", "T", "U", "V", "W", "X", "Y", "Z">>
LowerCase == <<"a", "b", "c", "d", "e", "f", "g", "h", "i", "j", "k", "l", "m", "n", "o", "p", "q", "r", "s", "t", "u", "v", "w", "x", "y", "z">>

Range(s) == {s[i] : i \in 1..Len(s)}

Position(s, c) == CHOOSE i \in 1..Len(s) : s[i] = c

IsDigit(c) == c \in Range(Digits)

\* UTF-16 code unit of a character (ASCII)
CodeUnit(c) ==
    IF c \in Range(Digits) THEN 47 + Position(Digits, c)
    ELSE IF c \in Range(UpperCase) THEN 64 + Position(UpperCase, c)
    ELSE IF c \in Range(LowerCase) THEN 96 + Position(LowerCase, c)
    ELSE IF c = " " THEN 32
    ELSE IF c = "+" THEN 43
    ELSE IF c = "-" THEN 45
    ELSE IF c = "_" THEN 95
    ELSE 0

\* String.prototype.toLowerCase
ToLowerCase(s) ==
    [i \in 1..Len(s) |->
        IF s[i] \in Range(UpperCase)
        THEN LowerCase[Position(UpperCase, s[i])]
        ELSE s[i]]

\* String.prototype.includes
Includes(s, w) ==
    \E i \in 0..(Len(s) - Len(w)) : SubSeq(s, i + 1, i + Len(w)) = w

\* a < b as JavaScript compares strings: by code units, a proper prefix first
StrLess(a, b) ==
    \E i \in 1..(Len(b)) :
        /\ \A j \in 1..(i - 1) : j <= Len(a) /\ a[j] = b[j]
        /\ \/ i = Len(a) + 1
           \/ i <= Len(a) /\ CodeUnit(a[i]) < CodeUnit(b[i])

---------------------------------------------------------------------------
(* JSON scalars *)

Missing == [t |-> "missing", n |-> 0, s |-> <<>>]
Num(k) == [t |-> "num", n |-> k, s |-> <<>>]
Str(x) == [t |-> "str", n |-> 0, s |-> x]

\* !v : undefined, 0 and "" are falsy
Falsy(v) ==
    \/ v.t = "missing"
    \/ v.t = "num" /\ v.n = 0
    \/ v.t = "str" /\ v.s = <<>>

\* (v || '') for a value that is then used as a string
OrEmpty(v) == IF Falsy(v) THEN <<>> ELSE v.s

\* calling a String method on (v || '') throws a TypeError for a number
NotAString(v) == ~Falsy(v) /\ v.t # "str"

---------------------------------------------------------------------------
(* update-stats-history.js: the classifiers *)

DetectPlatformIosFirst(job) ==
    LET j == ToLowerCase(OrEmpty(job)) IN
    IF Includes(j, <<"i", "o", "s">>) THEN <<"i", "o", "s">>
    ELSE IF Includes(j, <<"a", "n", "d", "r", "o", "i", "d">>) THEN <<"a", "n", "d", "r", "o", "i", "d">>
    ELSE IF Includes(j, <<"b", "r", "o", "w", "s", "e", "r">>) \/ Includes(j, <<"d", "e", "s", "k", "t", "o", "p">>)
            \/ Includes(j, <<"r", "e", "s", "p", "o", "n", "s", "i", "v", "e">>) THEN <<"b", "r", "o", "w", "s", "e", "r">>
    ELSE <<"o", "t", "h", "e", "r">>

DetectPlatform(job) ==
    LET j == ToLowerCase(OrEmpty(job)) IN
    IF Includes(j, <<"a", "n", "d", "r", "o", "i", "d">>) THEN <<"a", "n", "d", "r", "o", "i", "d">>
    ELSE IF Includes(j, <<"i", "o", "s">>) THEN <<"i", "o", "s">>
    ELSE IF Includes(j, <<"b", "r", "o", "w", "s", "e", "r">>) \/ Includes(j, <<"d", "e", "s", "k", "t", "o", "p">>)
            \/ Includes(j, <<"r", "e", "s", "p", "o", "n", "s", "i", "v", "e">>) THEN <<"b", "r", "o", "w", "s", "e", "r">>
    ELSE <<"o", "t", "h", "e", "r">>

NormalizeEnv(env) ==
    LET e == ToLowerCase(OrEmpty(env)) IN
    IF Includes(e, <<"s", "a", "n", "d", "b", "o", "x">>) THEN <<"s", "a", "n", "d", "b", "o", "x">>
    ELSE IF Includes(e, <<"s", "t", "a", "g", "i", "n", "g">>) THEN <<"s", "t", "a", "g", "i", "n", "g">>
    ELSE IF Includes(e, <<"f", "l", "u", "x">>) THEN <<"f", "l", "u", "x">>
    ELSE IF Includes(e, <<"l", "o", "c", "a", "l">>) THEN <<"l", "o", "c", "a", "l">>
    ELSE IF e # <<>> THEN e
    ELSE <<"u", "n", "k", "n", "o", "w", "n">>

\* timestamp.match(/^(\d{4}-\d{2}-\d{2})/)
MatchesDate(s) ==
    /\ Len(s) >= 10
    /\ \A i \in {1, 2, 3, 4, 6, 7, 9, 10} : IsDigit(s[i])
    /\ s[5] = "-"
    /\ s[8] = "-"

\* extractDate: [threw, found, date]; found = FALSE is the null result
ExtractDate(timestamp) ==
    IF Falsy(timestamp)
    THEN [threw |-> FALSE, found |-> FALSE, date |-> <<>>]
    ELSE IF timestamp.t # "str"
    THEN [threw |-> TRUE, found |-> FALSE, date |-> <<>>]
    ELSE IF MatchesDate(timestamp.s)
    THEN [threw |-> FALSE, found |-> TRUE, date |-> SubSeq(timestamp.s, 1, 10)]
    ELSE [threw |-> FALSE, found |-> FALSE, date |-> <<>>]

---------------------------------------------------------------------------
(* parseInt(v) || 0 *)

\* value of c as a digit in radix r, or -1
DigitValue(c, r) ==
    IF IsDigit(c) THEN Position(Digits, c) - 1
    ELSE IF r = 16 /\ c \in Range(SubSeq(LowerCase, 1, 6))
    THEN 9 + Position(LowerCase, c)
    ELSE IF r = 16 /\ c \in Range(SubSeq(UpperCase, 1, 6))
    THEN 9 + Position(UpperCase, c)
    ELSE -1

\* the value of the longest prefix of s made of radix-r digits: [nan, n]
RECURSIVE ParseDigits(_, _, _, _, _)
ParseDigits(s, i, r, acc, any) ==
    IF i > Len(s) \/ DigitValue(s[i], r) < 0
    THEN [nan |-> ~any, n |-> acc]
    ELSE ParseDigits(s, i + 1, r, acc * r + DigitValue(s[i], r), TRUE)

RECURSIVE SkipSpaces(_)
SkipSpaces(s) ==
    IF s # <<>> /\ Head(s) = " " THEN SkipSpaces(Tail(s)) ELSE s

\* parseInt of a string, no radix given
ParseIntStr(str) ==
    LET t == SkipSpaces(str)
        neg == t # <<>> /\ Head(t) = "-"
        u == IF t # <<>> /\ Head(t) \in {"+", "-"} THEN Tail(t) ELSE t
        hex == Len(u) >= 2 /\ u[1] = "0" /\ u[2] \in {"x", "X"}
        d == IF hex THEN ParseDigits(u, 3, 16, 0, FALSE)
             ELSE ParseDigits(u, 1, 10, 0, FALSE)
    IN  [nan |-> d.nan, n |-> IF neg THEN 0 - d.n ELSE d.n]

\* parseInt(v): ToString(v) is parsed; undefined gives NaN
ParseInt(v) ==
    IF v.t = "missing" THEN [nan |-> TRUE, n |-> 0]
    ELSE IF v.t = "num" THEN [nan |-> FALSE, n |-> v.n]
    ELSE ParseIntStr(v.s)

\* parseInt(v) || 0
ParseIntOrZero(v) == IF ParseInt(v).nan THEN 0 ELSE ParseInt(v).n

---------------------------------------------------------------------------
(* JavaScript objects used as maps: a sequence of [k, v] pairs, the keys in *)
(* insertion order (the order Object.keys and JSON.stringify follow for    *)
(* keys that are not array indices: dates, platform and environment tags). *)

Has(m, k) == \E i \in 1..Len(m) : m[i].k = k
Get(m, k) == m[CHOOSE i \in 1..Len(m) : m[i].k = k].v
Put(m, k, v) ==
    IF Has(m, k)
    THEN [i \in 1..Len(m) |-> IF m[i].k = k THEN [k |-> k, v |-> v] ELSE m[i]]
    ELSE Append(m, [k |-> k, v |-> v])
Keys(m) == [i \in 1..Len(m) |-> m[i].k]

ZeroStat == [runs |-> 0, passed |-> 0, failed |-> 0]

\* a record whose counts are both zero is not counted as a run
BumpSkippingEmpty(stat, passed, failed) ==
    IF passed = 0 /\ failed = 0 THEN stat
    ELSE [runs |-> stat.runs + 1,
          passed |-> stat.passed + passed,
          failed |-> stat.failed + failed]

\* runs++, passed += passed, failed += failed on one DailyStat
Bump(stat, passed, failed) ==
    [runs |-> stat.runs + 1,
     passed |-> stat.passed + passed,
     failed |-> stat.failed + failed]

\* the breakdown update of lines 107-112 and 115-120
BumpKey(m, k, passed, failed) ==
    Put(m, k, Bump(IF Has(m, k) THEN Get(m, k) ELSE ZeroStat, passed, failed))

---------------------------------------------------------------------------
(* update-stats-history.js: main *)

\* the body of manifest.forEach (lines 81-121): [threw, data]
AggregateReport(data, report) ==
    LET d == ExtractDate(report.timestamp) IN
    IF d.threw THEN [threw |-> TRUE, data |-> data]
    ELSE IF ~d.found THEN [threw |-> FALSE, data |-> data]
    ELSE IF NotAString(report.job) \/ NotAString(report.environment)
    THEN [threw |-> TRUE, data |-> data]
    ELSE
        LET platform == DetectPlatform(report.job)
            env == NormalizeEnv(report.environment)
            passed == ParseIntOrZero(report.passed)
            failed == ParseIntOrZero(report.failed)
            day == IF Has(data, d.date) THEN Get(data, d.date)
                   ELSE [date |-> d.date, totals |-> ZeroStat,
                         platforms |-> <<>>, environments |-> <<>>]
            day2 == [date |-> day.date,
                     totals |-> Bump(day.totals, passed, failed),
                     platforms |-> BumpKey(day.platforms, platform, passed, failed),
                     environments |-> BumpKey(day.environments, env, passed, failed)]
        IN  [threw |-> FALSE, data |-> Put(data, d.date, day2)]

\* manifest.forEach(...) from record i on
RECURSIVE AggregateFrom(_, _, _)
AggregateFrom(recs, i, data) ==
    IF i > Len(recs) THEN [threw |-> FALSE, data |-> data]
    ELSE LET r == AggregateReport(data, recs[i]) IN
         IF r.threw THEN r ELSE AggregateFrom(recs, i + 1, r.data)

AggregateManifest(recs) == AggregateFrom(recs, 1, <<>>)

\* history.entries.forEach(entry => existingMap[entry.date] = entry)
RECURSIVE BuildMapFrom(_, _, _)
BuildMapFrom(entries, i, m) ==
    IF i > Len(entries) THEN m
    ELSE BuildMapFrom(entries, i + 1, Put(m, entries[i].date, entries[i]))

BuildExistingMap(entries) == BuildMapFrom(entries, 1, <<>>)

\* Object.keys(newDataByDate).forEach(date => existingMap[date] = newDataByDate[date])
RECURSIVE MergeFrom(_, _, _)
MergeFrom(existing, fresh, i) ==
    IF i > Len(fresh) THEN existing
    ELSE MergeFrom(Put(existing, fresh[i].k, fresh[i].v), fresh, i + 1)

\* a field-level merge: the prior counts of a date are summed into the new ones
AddStats(a, b) ==
    [runs |-> a.runs + b.runs, passed |-> a.passed + b.passed,
     failed |-> a.failed + b.failed]

RECURSIVE MergeSummingFrom(_, _, _)
MergeSummingFrom(existing, fresh, i) ==
    IF i > Len(fresh) THEN existing
    ELSE LET k == fresh[i].k
             v == fresh[i].v
             w == IF Has(existing, k)
                  THEN [v EXCEPT !.totals = AddStats(Get(existing, k).totals, v.totals)]
                  ELSE v
         IN MergeSummingFrom(Put(existing, k, w), fresh, i + 1)

MergeSumming(existing, fresh) == MergeSummingFrom(existing, fresh, 1)

\* only the new data is kept
MergeDroppingOld(existing, fresh) == fresh

\* an entry the history already has for a date is kept
RECURSIVE MergeKeepingOldFrom(_, _, _)
MergeKeepingOldFrom(existing, fresh, i) ==
    IF i > Len(fresh) THEN existing
    ELSE MergeKeepingOldFrom(
            IF Has(existing, fresh[i].k) THEN existing
            ELSE Put(existing, fresh[i].k, fresh[i].v), fresh, i + 1)

MergeKeepingOld(existing, fresh) == MergeKeepingOldFrom(existing, fresh, 1)

Merge(existing, fresh) == MergeFrom(existing, fresh, 1)

\* Array.prototype.sort() on distinct strings: ascending by code units
RECURSIVE SortKeysOf(_)
SortKeysOf(ks) ==
    IF ks = {} THEN <<>>
    ELSE LET least == CHOOSE k \in ks : \A o \in ks \ {k} : StrLess(k, o)
         IN <<least>> \o SortKeysOf(ks \ {least})

\* the keys left in insertion order
KeysUnsorted(keys) == keys

SortKeys(keys) == SortKeysOf(Range(keys))

\* Object.keys(existingMap).sort().map(date => existingMap[date])
MergedEntries(m) ==
    LET ks == SortKeys(Keys(m)) IN [i \in 1..Len(ks) |-> Get(m, ks[i])]

---------------------------------------------------------------------------
(* Files *)

NoRecords == <<>>
NoEntries == <<>>

ManifestAbsent == [kind |-> "absent", records |-> NoRecords]
ManifestUnparseable == [kind |-> "unparseable", records |-> NoRecords]
ManifestArray(recs) == [kind |-> "array", records |-> recs]

\* stats-history.json: absent, not JSON, or JSON of one of these shapes:
\*   "null"          the value null
\*   "noEntries"     an object without an entries property
\*   "entriesNumber" an object whose entries is a number
\*   "log"           {lastUpdated, entries: [DayEntry, ...]}
StatsFile(kind, entries) == [kind |-> kind, lastUpdated |-> 0, entries |-> entries]
StatsLog(updated, entries) == [kind |-> "log", lastUpdated |-> updated, entries |-> entries]

\* the in-memory default { lastUpdated: null, entries: [] }
EmptyHistory == [kind |-> "log", lastUpdated |-> 0, entries |-> NoEntries]

\* JSON.parse(readFileSync(STATS_PATH)) throws (line 64)
HistoryParseThrows(file) == file.kind = "unparseable"
\* history.entries.length throws inside the try (line 65): null or no entries
HistoryLengthThrows(file) == file.kind \in {"null", "noEntries"}
\* history.entries.forEach is not a function (line 74): outside the try
HistoryForEachThrows(h) == h.kind = "entriesNumber"

---------------------------------------------------------------------------
(* Inputs *)

Report(ts, job, env, passed, failed) ==
    [timestamp |-> ts, job |-> job, environment |-> env,
     passed |-> passed, failed |-> failed]

\* the manifest records the inputs are drawn from
RecordPool ==
    { Report(Str(<<"2", "0", "2", "6", "-", "0", "2", "-", "1", "8", "_", "1", "0", "0", "0", "0", "0">>), Str(<<"a", "n", "d", "r", "o", "i", "d", "-", "s", "m", "o", "k", "e">>), Str(<<"s", "t", "a", "g", "i", "n", "g">>),
             Str(<<"1", "0">>), Str(<<"2">>)),
      Report(Str(<<"2", "0", "2", "6", "-", "0", "2", "-", "1", "8", "_", "1", "1", "0", "0", "0", "0">>), Str(<<"i", "o", "s", "-", "e", "2", "e">>), Str(<<"s", "a", "n", "d", "b", "o", "x">>),
             Num(5), Num(0)),
      Report(Str(<<"2", "0", "2", "6", "-", "0", "2", "-", "1", "9", "_", "0", "9", "3", "0", "0", "0">>), Str(<<"b", "r", "o", "w", "s", "e", "r", "-", "d", "e", "s", "k", "t", "o", "p", "-", "c", "i">>), Str(<<"S", "t", "a", "g", "i", "n", "g", "-", "E", "U">>),
             Missing, Str(<<"a", "b", "c">>)),
      Report(Str(<<"2", "0", "2", "6", "-", "0", "2", "-", "0", "1", "_", "1", "2", "0", "0", "0", "0">>), Missing, Str(<<>>),
             Num(7), Num(1)),
      Report(Str(<<"2", "0", "2", "6", "-", "0", "2", "-", "1", "8", "_", "1", "2", "0", "0", "0", "0">>), Str(<<"i", "O", "S", "-", "A", "n", "d", "r", "o", "i", "d">>), Str(<<"f", "l", "u", "x", "-", "l", "o", "c", "a", "l">>),
             Str(<<"2", "p", "a", "s", "s", "e", "d">>), Missing),
      Report(Missing, Str(<<"u", "n", "i", "t", "-", "t", "e", "s", "t", "s">>), Missing,
             Num(3), Num(3)),
      Report(Str(<<"2", "0", "2", "6", "0", "2", "1", "8", "_", "1", "3", "0", "0", "0", "0">>), Str(<<"R", "e", "s", "p", "o", "n", "s", "i", "v", "e", "-", "W", "e", "b">>), Str(<<"l", "o", "c", "a", "l">>),
             Num(4), Str(<<" ", "6">>)),
      Report(Num(20260218), Str(<<"d", "e", "s", "k", "t", "o", "p", "-", "s", "t", "u", "d", "i", "o", "s">>), Str(<<"s", "t", "a", "g", "i", "n", "g">>),
             Num(1), Num(1)) }

Stat(runs, passed, failed) == [runs |-> runs, passed |-> passed, failed |-> failed]

DayEntry(date, totals, platform, env) ==
    [date |-> date, totals |-> totals,
     platforms |-> <<[k |-> platform, v |-> totals]>>,
     environments |-> <<[k |-> env, v |-> totals]>>]

\* the prior DayEntry values the inputs are drawn from
EntryPool ==
    { DayEntry(<<"2", "0", "2", "6", "-", "0", "2", "-", "0", "1">>, Stat(1, 3, 1), <<"a", "n", "d", "r", "o", "i", "d">>, <<"s", "t", "a", "g", "i", "n", "g">>),
      DayEntry(<<"2", "0", "2", "6", "-", "0", "2", "-", "0", "1">>, Stat(2, 8, 0), <<"b", "r", "o", "w", "s", "e", "r">>, <<"s", "a", "n", "d", "b", "o", "x">>),
      DayEntry(<<"2", "0", "2", "6", "-", "0", "2", "-", "1", "8">>, Stat(5, 50, 5), <<"o", "t", "h", "e", "r">>, <<"l", "e", "g", "a", "c", "y">>) }

SeqsUpTo(S, n) == UNION {[1..k -> S] : k \in 0..n}

ManifestFiles ==
    {ManifestAbsent, ManifestUnparseable}
        \cup {ManifestArray(r) : r \in SeqsUpTo(RecordPool, MaxRecords)}

StatsFiles ==
    {StatsFile(k, NoEntries) :
        k \in {"absent", "unparseable", "null", "noEntries", "entriesNumber"}}
        \cup {StatsLog(0, e) : e \in SeqsUpTo(EntryPool, MaxEntries)}

---------------------------------------------------------------------------
(* update-stats-history.js: main, step by step *)

\* the process ends: process.exit(code), an uncaught exception (status 1),
\* or the end of main (status 0)
Exit(code) ==
    /\ pc' = "exit"
    /\ exitCode' = code

\* the missing manifest is reported, but main goes on
CheckManifestNoExit ==
    /\ pc = "start"
    /\ pc' = "readManifest"
    /\ UNCHANGED <<manifestFile, statsFile, manifest, history, existingMap,
                   newDataByDate, exitCode, clock, runNo, statsAtStart,
                   manifestRead, historyRead, writes, outputs, fixVars>>

\* lines 52-55
CheckManifest ==
    /\ pc = "start"
    /\ IF manifestFile.kind = "absent"
       THEN Exit(1)
       ELSE pc' = "readManifest" /\ UNCHANGED exitCode
    /\ UNCHANGED <<manifestFile, statsFile, manifest, history, existingMap,
                   newDataByDate, clock, runNo, statsAtStart, manifestRead,
                   historyRead, writes, outputs, fixVars>>

\* line 57: JSON.parse throws on a file that is not JSON
ReadManifest ==
    /\ pc = "readManifest"
    /\ manifestRead' = TRUE
    /\ IF manifestFile.kind = "unparseable"
       THEN Exit(1) /\ UNCHANGED manifest
       ELSE /\ manifest' = manifestFile.records
            /\ pc' = "readHistory"
            /\ UNCHANGED exitCode
    /\ UNCHANGED <<manifestFile, statsFile, history, existingMap,
                   newDataByDate, clock, runNo, statsAtStart,
                   historyRead, writes, outputs, fixVars>>

\* lines 61-70
LoadHistory(file) ==
    IF file.kind = "absent" THEN EmptyHistory
    ELSE IF HistoryParseThrows(file) \/ HistoryLengthThrows(file) THEN EmptyHistory
    ELSE file

ReadHistory ==
    /\ pc = "readHistory"
    /\ historyRead' = TRUE
    /\ history' = LoadHistory(statsFile)
    /\ pc' = "buildMap"
    /\ UNCHANGED <<manifestFile, statsFile, manifest, existingMap,
                   newDataByDate, exitCode, clock, runNo, statsAtStart,
                   manifestRead, writes, outputs, fixVars>>

\* lines 73-76
BuildMap ==
    /\ pc = "buildMap"
    /\ IF HistoryForEachThrows(history)
       THEN Exit(1) /\ UNCHANGED existingMap
       ELSE /\ existingMap' = BuildExistingMap(history.entries)
            /\ pc' = "aggregate"
            /\ UNCHANGED exitCode
    /\ UNCHANGED <<manifestFile, statsFile, manifest, history,
                   newDataByDate, clock, runNo, statsAtStart, manifestRead,
                   historyRead, writes, outputs, fixVars>>

\* lines 79-121
Aggregate ==
    /\ pc = "aggregate"
    /\ LET r == AggregateManifest(manifest) IN
       IF r.threw
       THEN Exit(1) /\ UNCHANGED newDataByDate
       ELSE /\ newDataByDate' = r.data
            /\ pc' = "merge"
            /\ UNCHANGED exitCode
    /\ UNCHANGED <<manifestFile, statsFile, manifest, history, existingMap,
                   clock, runNo, statsAtStart, manifestRead,
                   historyRead, writes, outputs, fixVars>>

\* lines 125-127
MergeNew ==
    /\ pc = "merge"
    /\ existingMap' = Merge(existingMap, newDataByDate)
    /\ pc' = "write"
    /\ UNCHANGED <<manifestFile, statsFile, manifest, history,
                   newDataByDate, exitCode, clock, runNo, statsAtStart,
                   manifestRead, historyRead, writes, outputs, fixVars>>

\* lines 130-151: sort, stamp, write the whole file, return
WriteHistory ==
    /\ pc = "write"
    /\ LET mergedEntries == MergedEntries(existingMap) IN
       /\ statsFile' = StatsLog(clock, mergedEntries)
       /\ outputs' = Append(outputs, mergedEntries)
    /\ writes' = writes + 1
    /\ clock' = clock + 1
    /\ Exit(0)
    /\ UNCHANGED <<manifestFile, manifest, history, existingMap,
                   newDataByDate, runNo, statsAtStart, manifestRead,
                   historyRead, fixVars>>

\* a fresh process state, as `node update-stats-history.js` starts with
StartAggregator ==
    /\ pc' = "start"
    /\ manifest' = NoRecords
    /\ history' = EmptyHistory
    /\ existingMap' = <<>>
    /\ newDataByDate' = <<>>
    /\ statsAtStart' = statsFile
    /\ manifestRead' = FALSE
    /\ historyRead' = FALSE
    /\ writes' = 0

\* the script is run again, on the same manifest and the history it left
Rerun ==
    /\ pc = "exit"
    /\ fixPc = "off"
    /\ runNo < MaxRuns
    /\ runNo' = runNo + 1
    /\ StartAggregator
    /\ UNCHANGED <<manifestFile, statsFile, exitCode, clock, outputs, fixVars>>

AggregatorStep ==
    \/ CheckManifest
    \/ ReadManifest
    \/ ReadHistory
    \/ BuildMap
    \/ Aggregate
    \/ MergeNew
    \/ WriteHistory

\* the reconciler and generate-manifest.sh are not running
FixIdle ==
    /\ fixPc = "off"
    /\ fixExit = 0
    /\ dryRun = FALSE
    /\ reportsDir = TRUE
    /\ disk = {}
    /\ folders = <<>>
    /\ folderIdx = 1
    /\ fixedCount = 0
    /\ renames = <<>>
    /\ renameIdx = 1
    /\ genPc = "off"
    /\ manifestTmp = ManifestAbsent
    /\ nodeOnPath = TRUE

Init ==
    /\ manifestFile \in ManifestFiles
    /\ statsFile \in StatsFiles
    /\ pc = "start"
    /\ manifest = NoRecords
    /\ history = EmptyHistory
    /\ existingMap = <<>>
    /\ newDataByDate = <<>>
    /\ exitCode = 0
    /\ clock = 1
    /\ runNo = 1
    /\ statsAtStart = statsFile
    /\ manifestRead = FALSE
    /\ historyRead = FALSE
    /\ writes = 0
    /\ outputs = <<>>
    /\ FixIdle

Next ==
    \/ AggregatorStep
    \/ Rerun

Spec == Init /\ [][Next]_vars

---------------------------------------------------------------------------
(* fix-stats-from-allure-data.js *)

\* String(n) of a non-negative integer
RECURSIVE NatToString(_)
NatToString(n) ==
    IF n < 10 THEN <<Digits[n + 1]>>
    ELSE NatToString(n \div 10) \o <<Digits[(n % 10) + 1]>>

\* the first position where "__" starts in s, or 0
DoubleUnderscoreAt(s) ==
    IF \E i \in 1..(Len(s) - 1) : s[i] = "_" /\ s[i + 1] = "_"
    THEN CHOOSE i \in 1..(Len(s) - 1) :
            /\ s[i] = "_" /\ s[i + 1] = "_"
            /\ \A j \in 1..(i - 1) : ~(s[j] = "_" /\ s[j + 1] = "_")
    ELSE 0

\* folder.split('__')
RECURSIVE Split(_)
Split(s) ==
    LET i == DoubleUnderscoreAt(s) IN
    IF i = 0 THEN <<s>>
    ELSE <<SubSeq(s, 1, i - 1)>> \o Split(SubSeq(s, i + 2, Len(s)))

\* parts.join('__')
RECURSIVE Join(_)
Join(parts) ==
    IF Len(parts) = 1 THEN parts[1]
    ELSE parts[1] \o <<"_", "_">> \o Join(Tail(parts))

\* a report folder: its name, widgets/summary.json, .metadata
\* summary.present = FALSE: no file, not JSON, or no statistic
Summary(passed, failed, broken) ==
    [present |-> TRUE, passed |-> passed, failed |-> failed, broken |-> broken]
NoSummary == [present |-> FALSE, passed |-> 0, failed |-> 0, broken |-> 0]

\* .metadata: one JSON-scalar-like value per KEY= line, Missing without the line
Metadata(ts, env, passed, failed, total) ==
    [present |-> TRUE, timestamp |-> ts, environment |-> env, job |-> Missing,
     passed |-> passed, failed |-> failed, total |-> total]
NoMetadata ==
    [present |-> FALSE, timestamp |-> Missing, environment |-> Missing,
     job |-> Missing, passed |-> Missing, failed |-> Missing, total |-> Missing]

Folder(name, summary, meta) == [name |-> name, summary |-> summary, meta |-> meta]

\* countFromSummary (lines 31-56): "broken" counts as failed
CountFromSummary(summary) ==
    IF ~summary.present
    THEN [found |-> FALSE, passed |-> 0, failed |-> 0, total |-> 0]
    ELSE [found |-> TRUE,
          passed |-> summary.passed,
          failed |-> summary.failed + summary.broken,
          total |-> summary.passed + summary.failed + summary.broken]

\* statusTag (lines 59-61)
StatusTag(passed, failed) ==
    IF failed > 0
    THEN NatToString(passed) \o <<"p", "a", "s", "s", "e", "d", "_">> \o NatToString(failed) \o <<"f", "a", "i", "l", "e", "d">>
    ELSE NatToString(passed) \o <<"p", "a", "s", "s", "e", "d">>

\* (meta.match(/^KEY=(.*)$/m) || [])[1] || '?'  (lines 103-109)
OldValue(meta, line) ==
    IF meta.present /\ line.t = "str" /\ line.s # <<>> THEN line.s ELSE <<"?">>

\* content.replace(/^KEY=.*$/m, `KEY=${value}`): only an existing line changes
ReplaceLine(line, value) ==
    IF line.t = "str" THEN Str(NatToString(value)) ELSE line

\* updateMetadata (lines 64-70)
UpdateMetadata(meta, passed, failed, total) ==
    [meta EXCEPT !.total = ReplaceLine(meta.total, total),
                 !.passed = ReplaceLine(meta.passed, passed),
                 !.failed = ReplaceLine(meta.failed, failed)]

FolderNamed(name) == CHOOSE f \in disk : f.name = name
Exists(name) == \E f \in disk : f.name = name

\* readdirSync(REPORTS_DIR).filter(isDirectory).sort()  (lines 79-81)
SortedNames == SortKeysOf({f.name : f \in disk})

\* lines 74-83
FixStart ==
    /\ fixPc = "start"
    /\ IF ~reportsDir
       THEN fixPc' = "done" /\ fixExit' = 1 /\ UNCHANGED folders
       ELSE fixPc' = "loop" /\ folders' = SortedNames /\ UNCHANGED fixExit
    /\ UNCHANGED <<dryRun, reportsDir, disk, folderIdx, fixedCount, renames,
                   renameIdx, genPc, manifestTmp, nodeOnPath, aggVars>>

\* one iteration of the for loop (lines 90-155)
ProcessFolder ==
    /\ fixPc = "loop"
    /\ folderIdx <= Len(folders)
    /\ LET folder == folders[folderIdx]
           f == FolderNamed(folder)
           counts == CountFromSummary(f.summary)
           oldPassed == OldValue(f.meta, f.meta.passed)
           oldFailed == OldValue(f.meta, f.meta.failed)
           oldTotal == OldValue(f.meta, f.meta.total)
           unchanged == /\ oldPassed = NatToString(counts.passed)
                        /\ oldFailed = NatToString(counts.failed)
                        /\ oldTotal = NatToString(counts.total)
           oldTag == StatusTag(ParseIntOrZero(Str(oldPassed)),
                               ParseIntOrZero(Str(oldFailed)))
           newTag == StatusTag(counts.passed, counts.failed)
           parts == Split(folder)
           lastPart == parts[Len(parts)]
           newFolder == Join([parts EXCEPT ![Len(parts)] = newTag])
       IN
       IF ~counts.found \/ unchanged
       THEN UNCHANGED <<disk, renames, fixedCount>>
       ELSE /\ fixedCount' = fixedCount + 1
            /\ IF dryRun
               THEN UNCHANGED <<disk, renames>>
               ELSE /\ disk' = IF f.meta.present
                               THEN (disk \ {f}) \cup
                                    {[f EXCEPT !.meta = UpdateMetadata(f.meta,
                                        counts.passed, counts.failed, counts.total)]}
                               ELSE disk
                    /\ renames' = IF oldTag # newTag /\ Includes(lastPart, <<"p", "a", "s", "s", "e", "d">>)
                                  THEN Append(renames, [oldName |-> folder,
                                                        newName |-> newFolder])
                                  ELSE renames
    /\ folderIdx' = folderIdx + 1
    /\ UNCHANGED <<fixPc, fixExit, dryRun, reportsDir, folders, renameIdx,
                   genPc, manifestTmp, nodeOnPath, aggVars>>

\* the loop is over (line 155)
LoopEnd ==
    /\ fixPc = "loop"
    /\ folderIdx > Len(folders)
    /\ fixPc' = "renames"
    /\ UNCHANGED <<fixExit, dryRun, reportsDir, disk, folders, folderIdx,
                   fixedCount, renames, renameIdx, genPc, manifestTmp,
                   nodeOnPath, aggVars>>

\* one deferred rename (lines 159-165): skipped when the target exists
ApplyRename ==
    /\ fixPc = "renames"
    /\ renameIdx <= Len(renames)
    /\ LET r == renames[renameIdx] IN
       disk' = IF Exists(r.newName) THEN disk
               ELSE (disk \ {FolderNamed(r.oldName)})
                    \cup {[FolderNamed(r.oldName) EXCEPT !.name = r.newName]}
    /\ renameIdx' = renameIdx + 1
    /\ UNCHANGED <<fixPc, fixExit, dryRun, reportsDir, folders, folderIdx,
                   fixedCount, renames, genPc, manifestTmp, nodeOnPath, aggVars>>

\* the condition of line 172
RegenerateWhenRenamed == ~dryRun /\ Len(renames) > 0

ShouldRegenerate == ~dryRun /\ fixedCount > 0

\* lines 168-178: the summary, then execSync(sh generate-manifest.sh) or the end
Regenerate ==
    /\ fixPc = "renames"
    /\ renameIdx > Len(renames)
    /\ IF ShouldRegenerate
       THEN fixPc' = "regen" /\ genPc' = "start"
       ELSE fixPc' = "done" /\ UNCHANGED genPc
    /\ UNCHANGED <<fixExit, dryRun, reportsDir, disk, folders, folderIdx,
                   fixedCount, renames, renameIdx, manifestTmp, nodeOnPath,
                   aggVars>>

\* execSync returns (lines 179-184); main ends
RegenerateDone ==
    /\ fixPc = "regen"
    /\ genPc = "done"
    /\ fixPc' = "done"
    /\ UNCHANGED <<fixExit, dryRun, reportsDir, disk, folders, folderIdx,
                   fixedCount, renames, renameIdx, genPc, manifestTmp,
                   nodeOnPath, aggVars>>

---------------------------------------------------------------------------
(* generate-manifest.sh *)

\* ${VALUE:-default} of a KEY= line read with grep | cut
LineOr(line, default) ==
    IF line.t = "str" /\ line.s # <<>> THEN line.s ELSE default

\* the characters of [0-9_-]
InStampClass(c) == IsDigit(c) \/ c = "_" \/ c = "-"

\* sed 's/^[0-9_-]*__//' : the longest prefix of [0-9_-] characters ending in __
StripStamp(s) ==
    LET ends == {k \in 2..Len(s) :
                    /\ \A i \in 1..k : InStampClass(s[i])
                    /\ s[k - 1] = "_" /\ s[k] = "_"}
    IN  IF ends = {} THEN s
        ELSE SubSeq(s, 1 + (CHOOSE k \in ends : \A o \in ends : o <= k), Len(s))

\* sed 's/__.*//'
CutAtDoubleUnderscore(s) ==
    IF DoubleUnderscoreAt(s) = 0 THEN s
    ELSE SubSeq(s, 1, DoubleUnderscoreAt(s) - 1)

\* lines 50-52: the job from the folder name, else from .metadata, else unknown
JobOf(f) ==
    LET fromName == CutAtDoubleUnderscore(StripStamp(f.name)) IN
    IF fromName # <<>> THEN fromName ELSE LineOr(f.meta.job, <<"u", "n", "k", "n", "o", "w", "n">>)

\* a value written without quotes is JSON only if it is a number
IsJsonNumber(s) ==
    /\ s # <<>>
    /\ \A i \in 1..Len(s) : IsDigit(s[i])
    /\ Len(s) > 1 => s[1] # "0"

\* lines 74-87: the entry of one folder
ManifestEntry(f) ==
    Report(Str(LineOr(f.meta.timestamp, <<>>)),
           Str(JobOf(f)),
           Str(LineOr(f.meta.environment, <<"u", "n", "k", "n", "o", "w", "n">>)),
           Num(ParseIntOrZero(Str(LineOr(f.meta.passed, <<"0">>)))),
           Num(ParseIntOrZero(Str(LineOr(f.meta.failed, <<"0">>)))))

\* the folders that hold a .metadata, newest first (find | sort -r, line 33)
ScannedNames ==
    LET names == SortKeysOf({f.name : f \in {g \in disk : g.meta.present}})
    IN  [i \in 1..Len(names) |-> names[Len(names) + 1 - i]]

\* lines 27-92: manifest.json.tmp
ScanToTmp ==
    LET names == ScannedNames
        valid == \A i \in 1..Len(names) :
                    LET f == FolderNamed(names[i]) IN
                    /\ IsJsonNumber(LineOr(f.meta.total, <<"0">>))
                    /\ IsJsonNumber(LineOr(f.meta.passed, <<"0">>))
                    /\ IsJsonNumber(LineOr(f.meta.failed, <<"0">>))
    IN  IF valid
        THEN ManifestArray([i \in 1..Len(names) |-> ManifestEntry(FolderNamed(names[i]))])
        ELSE ManifestUnparseable

\* lines 19-22 (set -e: exit 1 ends the script)
GenStart ==
    /\ genPc = "start"
    /\ genPc' = IF reportsDir THEN "scan" ELSE "done"
    /\ UNCHANGED <<fixPc, fixExit, dryRun, reportsDir, disk, folders, folderIdx,
                   fixedCount, renames, renameIdx, manifestTmp, nodeOnPath,
                   aggVars>>

\* lines 27-92
GenScan ==
    /\ genPc = "scan"
    /\ manifestTmp' = ScanToTmp
    /\ genPc' = "move"
    /\ UNCHANGED <<fixPc, fixExit, dryRun, reportsDir, disk, folders, folderIdx,
                   fixedCount, renames, renameIdx, nodeOnPath, aggVars>>

\* line 95: mv manifest.json.tmp manifest.json
GenMove ==
    /\ genPc = "move"
    /\ manifestFile' = manifestTmp
    /\ manifestTmp' = ManifestAbsent
    /\ genPc' = "stats"
    /\ UNCHANGED <<fixPc, fixExit, dryRun, reportsDir, disk, folders, folderIdx,
                   fixedCount, renames, renameIdx, nodeOnPath,
                   statsFile, pc, manifest, history, existingMap, newDataByDate,
                   exitCode, clock, runNo, statsAtStart, manifestRead,
                   historyRead, writes, outputs>>

\* lines 100-105: node update-stats-history.js, when node is there
GenStats ==
    /\ genPc = "stats"
    /\ IF nodeOnPath
       THEN genPc' = "node" /\ StartAggregator
       ELSE /\ genPc' = "done"
            /\ UNCHANGED <<pc, manifest, history, existingMap, newDataByDate,
                           statsAtStart, manifestRead, historyRead, writes>>
    /\ UNCHANGED <<fixPc, fixExit, dryRun, reportsDir, disk, folders, folderIdx,
                   fixedCount, renames, renameIdx, manifestTmp, nodeOnPath,
                   manifestFile, statsFile, exitCode, clock, runNo, outputs>>

\* line 102: node has ended; `|| echo` makes a failure non-blocking
GenStatsDone ==
    /\ genPc = "node"
    /\ pc = "exit"
    /\ genPc' = "done"
    /\ UNCHANGED <<fixPc, fixExit, dryRun, reportsDir, disk, folders, folderIdx,
                   fixedCount, renames, renameIdx, manifestTmp, nodeOnPath,
                   aggVars>>

---------------------------------------------------------------------------
(* A run of the reconciler *)

\* the report folders the directory is drawn from
FolderPool ==
    { Folder(<<"2", "0", "2", "6", "-", "0", "2", "-", "1", "8", "_", "1", "0", "0", "0", "0", "0", "_", "_", "a", "n", "d", "r", "o", "i", "d", "-", "s", "m", "o", "k", "e", "_", "_", "5", "p", "a", "s", "s", "e", "d">>,
             Summary(4, 0, 1),
             Metadata(Str(<<"2", "0", "2", "6", "-", "0", "2", "-", "1", "8", "_", "1", "0", "0", "0", "0", "0">>), Str(<<"s", "t", "a", "g", "i", "n", "g">>),
                      Str(<<"5">>), Str(<<"0">>), Str(<<"5">>))),
      Folder(<<"2", "0", "2", "6", "-", "0", "2", "-", "1", "8", "_", "1", "0", "0", "0", "0", "0", "_", "_", "a", "n", "d", "r", "o", "i", "d", "-", "s", "m", "o", "k", "e", "_", "_", "4", "p", "a", "s", "s", "e", "d", "_", "1", "f", "a", "i", "l", "e", "d">>,
             Summary(4, 1, 0),
             Metadata(Str(<<"2", "0", "2", "6", "-", "0", "2", "-", "1", "8", "_", "1", "0", "0", "0", "0", "0">>), Str(<<"s", "t", "a", "g", "i", "n", "g">>),
                      Str(<<"4">>), Str(<<"1">>), Str(<<"5">>))),
      Folder(<<"2", "0", "2", "6", "-", "0", "2", "-", "1", "9", "_", "0", "9", "3", "0", "0", "0", "_", "_", "i", "o", "s", "-", "e", "2", "e", "_", "_", "m", "a", "i", "n">>,
             Summary(2, 0, 0),
             Metadata(Str(<<"2", "0", "2", "6", "-", "0", "2", "-", "1", "9", "_", "0", "9", "3", "0", "0", "0">>), Str(<<"s", "a", "n", "d", "b", "o", "x">>),
                      Str(<<"3">>), Missing, Str(<<"3">>))),
      Folder(<<"2", "0", "2", "6", "-", "0", "2", "-", "2", "0", "_", "0", "8", "0", "0", "0", "0", "_", "_", "b", "r", "o", "w", "s", "e", "r", "-", "c", "i", "_", "_", "0", "p", "a", "s", "s", "e", "d">>,
             Summary(1, 0, 0),
             NoMetadata),
      Folder(<<"m", "i", "s", "c">>,
             NoSummary,
             Metadata(Missing, Missing, Str(<<"7">>), Str(<<"0">>), Str(<<"7">>))) }

InitFix ==
    /\ fixPc = "start"
    /\ fixExit = 0
    /\ dryRun \in BOOLEAN
    /\ reportsDir \in BOOLEAN
    /\ disk \in SUBSET FolderPool
    /\ ~reportsDir => disk = {}
    /\ folders = <<>>
    /\ folderIdx = 1
    /\ fixedCount = 0
    /\ renames = <<>>
    /\ renameIdx = 1
    /\ genPc = "off"
    /\ manifestTmp = ManifestAbsent
    /\ nodeOnPath \in BOOLEAN
    /\ manifestFile = ManifestAbsent
    /\ statsFile \in {StatsFile("absent", NoEntries),
                      StatsLog(0, <<DayEntry(<<"2", "0", "2", "6", "-", "0", "2", "-", "1", "8">>, Stat(5, 50, 5), <<"o", "t", "h", "e", "r">>, <<"l", "e", "g", "a", "c", "y">>)>>)}
    /\ pc = "idle"
    /\ manifest = NoRecords
    /\ history = EmptyHistory
    /\ existingMap = <<>>
    /\ newDataByDate = <<>>
    /\ exitCode = 0
    /\ clock = 1
    /\ runNo = 1
    /\ statsAtStart = statsFile
    /\ manifestRead = FALSE
    /\ historyRead = FALSE
    /\ writes = 0
    /\ outputs = <<>>

NextFix ==
    \/ FixStart
    \/ ProcessFolder
    \/ LoopEnd
    \/ ApplyRename
    \/ Regenerate
    \/ RegenerateDone
    \/ GenStart
    \/ GenScan
    \/ GenMove
    \/ GenStats
    \/ GenStatsDone
    \/ AggregatorStep

SpecFix == InitFix /\ [][NextFix]_vars

---------------------------------------------------------------------------
(* What the properties speak about *)

\* the aggregator process has ended
Done == pc = "exit"
\* ... by returning from main
Succeeded == pc = "exit" /\ exitCode = 0 /\ writes = 1

\* the entries of a history file that holds a history log
EntriesOf(file) == IF file.kind = "log" THEN file.entries ELSE NoEntries

PriorEntries == EntriesOf(statsAtStart)
Written == EntriesOf(statsFile)

DatesOf(entries) == {entries[i].date : i \in 1..Len(entries)}

\* the records of the manifest file whose extracted date is D
RecordsOn(D) ==
    {i \in 1..Len(manifestFile.records) :
        LET d == ExtractDate(manifestFile.records[i].timestamp)
        IN  d.found /\ d.date = D}

\* the dates some manifest record has as its extracted date
ManifestDates ==
    {ExtractDate(manifestFile.records[i].timestamp).date :
        i \in {r \in 1..Len(manifestFile.records) :
                  ExtractDate(manifestFile.records[r].timestamp).found}}

\* the entry a history with several entries for D resolves to: the last one
LastEntryOn(entries, D) ==
    entries[CHOOSE i \in 1..Len(entries) :
                /\ entries[i].date = D
                /\ \A j \in (i + 1)..Len(entries) : entries[j].date # D]

\* the positions of the written entries for D
WrittenOn(D) == {i \in 1..Len(Written) : Written[i].date = D}

\* the sum of vals[i] over the positions i of S
RECURSIVE SumOver(_, _)
SumOver(S, vals) ==
    IF S = {} THEN 0
    ELSE LET x == CHOOSE y \in S : TRUE IN vals[x] + SumOver(S \ {x}, vals)

\* per manifest record, what its passed / failed value contributes
PassedRead == [r \in 1..Len(manifestFile.records) |-> ParseIntOrZero(manifestFile.records[r].passed)]
FailedRead == [r \in 1..Len(manifestFile.records) |-> ParseIntOrZero(manifestFile.records[r].failed)]

\* the runs counted under key k of a breakdown, 0 when the key is absent
RunsUnder(m, k) == IF Has(m, k) THEN Get(m, k).runs ELSE 0

\* a value that reads as a number: a number, or a string that is an
\* optionally signed decimal integer
IsNumeric(v) ==
    \/ v.t = "num"
    \/ /\ v.t = "str"
       /\ LET t == SkipSpaces(v.s)
              u == IF t # <<>> /\ Head(t) \in {"+", "-"} THEN Tail(t) ELSE t
          IN  u # <<>> /\ \A i \in 1..Len(u) : IsDigit(u[i])

\* what a value contributes to a sum if non-numeric values count as zero
NumericOrZero(v) == IF IsNumeric(v) THEN ParseInt(v).n ELSE 0
PassedNumeric == [r \in 1..Len(manifestFile.records) |-> NumericOrZero(manifestFile.records[r].passed)]
FailedNumeric == [r \in 1..Len(manifestFile.records) |-> NumericOrZero(manifestFile.records[r].failed)]

---------------------------------------------------------------------------
(* C1 - Preservation: when a run has ended, every date D that has an entry *)
(* in the prior history and that no manifest record has as its extracted   *)
(* date has an entry in the history file that is exactly the prior entry   *)
(* for D (the last one, if the prior history held several); a run that     *)
(* wrote the file wrote exactly one entry for D.                           *)
C1_Preservation ==
    Done =>
        \A D \in DatesOf(PriorEntries) \ ManifestDates :
            /\ \E i \in 1..Len(Written) : Written[i] = LastEntryOn(PriorEntries, D)
            /\ Succeeded => Cardinality(WrittenOn(D)) = 1

C1_Witness ==
    /\ Succeeded
    /\ ManifestDates # {}
    /\ DatesOf(PriorEntries) \ ManifestDates # {}
    /\ DatesOf(PriorEntries) \cap ManifestDates # {}

(* C2 - Overwrite-not-merge: after a successful run, a date D that is in   *)
(* the prior history and in the manifest has exactly one written entry; it *)
(* is the aggregate of the manifest's records alone, and its platform and  *)
(* environment keys are those of the manifest's records of D.              *)
C2_Overwrite ==
    Succeeded =>
        LET fresh == AggregateManifest(manifestFile.records).data IN
        \A D \in DatesOf(PriorEntries) \cap ManifestDates :
            /\ Cardinality(WrittenOn(D)) = 1
            /\ \A i \in WrittenOn(D) :
                /\ Written[i] = Get(fresh, D)
                /\ Range(Keys(Written[i].platforms)) =
                      {DetectPlatform(manifestFile.records[r].job) : r \in RecordsOn(D)}
                /\ Range(Keys(Written[i].environments)) =
                      {NormalizeEnv(manifestFile.records[r].environment) : r \in RecordsOn(D)}
                /\ Written[i].totals.runs = Cardinality(RecordsOn(D))

C2_Witness ==
    /\ Succeeded
    /\ \E D \in DatesOf(PriorEntries) \cap ManifestDates :
          \E i \in WrittenOn(D) :
              /\ Written[i] # LastEntryOn(PriorEntries, D)
              /\ Range(Keys(LastEntryOn(PriorEntries, D).platforms))
                    \ Range(Keys(Written[i].platforms)) # {}

C4_SortedUnique ==
    Succeeded =>
        \A i, j \in 1..Len(Written) :
            i < j => StrLess(Written[i].date, Written[j].date)

C4_Witness ==
    /\ Succeeded
    /\ Len(Written) >= 2
    /\ Len(PriorEntries) >= 2
    /\ \E i, j \in 1..Len(PriorEntries) :
          i < j /\ ~StrLess(PriorEntries[i].date, PriorEntries[j].date)

(* C5 - Idempotence: the runs made in a row on the same manifest all write *)
(* the same entries sequence; only lastUpdated differs.                    *)
C5_Idempotence ==
    \A i, j \in 1..Len(outputs) : outputs[i] = outputs[j]

C5_Witness ==
    /\ Succeeded
    /\ Len(outputs) = 2
    /\ statsAtStart.kind = "log"
    /\ statsFile.lastUpdated # statsAtStart.lastUpdated
    /\ DatesOf(PriorEntries) \cap ManifestDates # {}
    /\ DatesOf(PriorEntries) \ ManifestDates # {}

(* C6 - Missing manifest: the run ends with status 1 and the history file  *)
(* is as it was (absent stays absent); in every run the history file is    *)
(* written at most once, and only after the manifest was read and the      *)
(* prior history looked up.                                                *)
C6_MissingManifestFatal ==
    /\ (Done /\ manifestFile.kind = "absent") =>
          exitCode = 1 /\ statsFile = statsAtStart
    /\ writes <= 1
    /\ writes = 1 => manifestRead /\ historyRead
    /\ writes = 0 => statsFile = statsAtStart

C6_Witness ==
    /\ Done
    /\ manifestFile.kind = "absent"
    /\ exitCode = 1
    /\ Len(PriorEntries) > 0

(* C7 (as claimed) - Corrupt prior history is recoverable: with a manifest *)
(* that aggregates, a prior history file that exists and is not a history  *)
(* log makes the run end with status 0 and write exactly the entries       *)
(* computed from the manifest.                                             *)
C7_CorruptHistoryRecoverable ==
    (/\ Done
     /\ manifestFile.kind = "array"
     /\ ~AggregateManifest(manifestFile.records).threw
     /\ statsAtStart.kind \in {"unparseable", "null", "noEntries", "entriesNumber"})
    => /\ exitCode = 0
       /\ Written = MergedEntries(AggregateManifest(manifestFile.records).data)

(* C8 (as claimed) - Malformed record fields never raise: with a usable    *)
(* prior history, a manifest that parses makes the run end with status 0;  *)
(* the records without a date prefix are in no entry and the other records *)
(* are aggregated and written.                                             *)
C8_MalformedNeverRaises ==
    (/\ Done
     /\ manifestFile.kind = "array"
     /\ statsAtStart.kind # "entriesNumber")
    => /\ exitCode = 0
       /\ writes = 1
       /\ \A D \in ManifestDates : \A i \in WrittenOn(D) :
             Written[i].totals.runs = Cardinality(RecordsOn(D))

\* the platform of a job by the rules in their order
RulePlatform(job) ==
    LET j == IF job.t = "str" THEN ToLowerCase(job.s) ELSE <<>>
        android == Includes(j, <<"a", "n", "d", "r", "o", "i", "d">>)
        ios == Includes(j, <<"i", "o", "s">>)
        browser == \E w \in {<<"b", "r", "o", "w", "s", "e", "r">>, <<"d", "e", "s", "k", "t", "o", "p">>, <<"r", "e", "s", "p", "o", "n", "s", "i", "v", "e">>} : Includes(j, w)
    IN  CASE android -> <<"a", "n", "d", "r", "o", "i", "d">>
          [] ~android /\ ios -> <<"i", "o", "s">>
          [] ~android /\ ~ios /\ browser -> <<"b", "r", "o", "w", "s", "e", "r">>
          [] OTHER -> <<"o", "t", "h", "e", "r">>

(* C9 - Platform classification: in the aggregate of the manifest, the     *)
(* entry of a date counts each of its records under exactly one platform   *)
(* tag, the one of the first matching rule (android, ios, browser, other). *)
C9_PlatformFirstMatch ==
    pc \in {"merge", "write"} =>
        LET ruled == [r \in 1..Len(manifestFile.records) |->
                        RulePlatform(manifestFile.records[r].job)] IN
        \A D \in ManifestDates :
            /\ Has(newDataByDate, D)
            /\ \A tag \in {<<"a", "n", "d", "r", "o", "i", "d">>, <<"i", "o", "s">>, <<"b", "r", "o", "w", "s", "e", "r">>, <<"o", "t", "h", "e", "r">>} :
                  RunsUnder(Get(newDataByDate, D).platforms, tag) =
                      Cardinality({r \in RecordsOn(D) : ruled[r] = tag})
            /\ Range(Keys(Get(newDataByDate, D).platforms))
                  \subseteq {<<"a", "n", "d", "r", "o", "i", "d">>, <<"i", "o", "s">>, <<"b", "r", "o", "w", "s", "e", "r">>, <<"o", "t", "h", "e", "r">>}

C9_Witness ==
    /\ pc = "write"
    /\ \E D \in ManifestDates :
          /\ \E r \in RecordsOn(D) :
                LET j == ToLowerCase(OrEmpty(manifestFile.records[r].job))
                IN  Includes(j, <<"a", "n", "d", "r", "o", "i", "d">>) /\ Includes(j, <<"i", "o", "s">>)
    /\ \E D \in ManifestDates :
          \E r \in RecordsOn(D) : manifestFile.records[r].job.t = "missing"

---------------------------------------------------------------------------
RegenStarted == genPc # "off"
\* the stats aggregator was started
AggregatorStarted == pc # "idle"

=============================================================================
